---------------------------- MODULE Spec2Model ----------------------------
(* Model of tools.py: the time-lagged design matrix (prepare_stimuli),    *)
(* the epoch interval resolver (time_to_stimuli) and the trial result     *)
(* ledger (open_file, result_text, save_results).                         *)
(*                                                                        *)
(* Arrays are records [shape |-> <<rows, columns>>, rows |-> sequence of  *)
(* rows], so that an array with no rows still has a column count, as a    *)
(* numpy array has.  A text file is a sequence of tokens; "\n" is the     *)
(* newline token and the counter line is made of one-character tokens.    *)
(* Times are counted in half seconds, so the epoch step 1.5 is 3 units.   *)
EXTENDS Integers, Sequences, FiniteSets, TLC

VARIABLES stim_signal, m, d, stim_matrix,
          val_epochs, interval, resolved,
          file, before, outcome, appended,
          pc, content, n_trial, results, lines, overlapped

vars == <<stim_signal, m, d, stim_matrix,
          val_epochs, interval, resolved,
          file, before, outcome, appended,
          pc, content, n_trial, results, lines, overlapped>>

matrixVars == <<stim_signal, m, d, stim_matrix>>
epochVars  == <<val_epochs, interval, resolved>>
ledgerVars == <<file, before, outcome, appended>>
writerVars == <<pc, content, n_trial, results, lines, overlapped>>

-----------------------------------------------------------------------------
(* Bounds *)
MaxChan == 3
MaxT == 2
MaxM == 3
MaxD == 2
MaxEpochs == 4
MaxTime == 16
MaxBefore == 4
MaxCalls == 20
MaxOther == 2
MaxForeignCalls == 2
MaxTail == 2
MaxPrior == 2

Min(a, b) == IF a < b THEN a ELSE b
Max(a, b) == IF a > b THEN a ELSE b

-----------------------------------------------------------------------------
(* Python and numpy primitives *)

(* s[a:b] of Python: negative indices count from the end, both are clamped *)
SliceIndex(i, n) == IF i < 0 THEN Max(i + n, 0) ELSE Min(i, n)

PySlice(s, a, b) ==
  LET lo == SliceIndex(a, Len(s))
      hi == SliceIndex(b, Len(s))
  IN  IF lo >= hi THEN << >> ELSE SubSeq(s, lo + 1, hi)

Arr(r, c, rows) == [shape |-> <<r, c>>, rows |-> rows]

(* np.zeros((r, c)) *)
Zeros(r, c) == Arr(r, c, [i \in 1..r |-> [k \in 1..c |-> 0]])

(* a[:n] on the first axis *)
FirstRows(a, n) ==
  LET rows == PySlice(a.rows, 0, n)
  IN  Arr(Len(rows), a.shape[2], rows)

(* np.hstack((a, b)) of two 2-D arrays: the row counts must agree *)
HStackOk(a, b) == a.shape[1] = b.shape[1]

HStack(a, b) ==
  Arr(a.shape[1], a.shape[2] + b.shape[2],
      [i \in 1..a.shape[1] |-> a.rows[i] \o b.rows[i]])

(* a 1-D array of n values as an (n, 1) array: np.array([v]).T, np.reshape *)
AsColumn(v) == Arr(Len(v), 1, [t \in 1..Len(v) |-> <<v[t]>>])

Failed(kind) == [status |-> kind, matrix |-> Arr(0, 0, << >>)]
Returned(a)  == [status |-> "ok", matrix |-> a]

-----------------------------------------------------------------------------
(* prepare_stimuli *)

(* the channels the loop of prepare_stimuli visits: range(m) *)
ChannelsDroppingMissing(mm, stim_data) == Min(mm, stim_data.shape[1])
Channels(mm, stim_data) == mm

(* the slice bounds of the column of lag j: stim_data[i][d - j: length_stim - j] *)
LagSliceUnshifted(dd, j, length_stim) == <<dd, length_stim>>
LagSlice(dd, j, length_stim) == <<dd - j, length_stim - j>>

RECURSIVE AddColumns(_, _, _, _, _, _)
(* the double loop, flattened: step k is channel i = k \div (d+1), lag j = k % (d+1) *)
AddColumns(stim_data, mm, dd, length_stim, acc, k) ==
  IF k >= Channels(mm, stim_data) * (dd + 1) THEN Returned(acc)
  ELSE LET i == k \div (dd + 1)
           j == k % (dd + 1)
       IN  IF i = 0 /\ j = 0
             THEN AddColumns(stim_data, mm, dd, length_stim, acc, k + 1)
           ELSE IF i >= stim_data.shape[1] THEN Failed("IndexError")
           ELSE LET b   == LagSlice(dd, j, length_stim)
                    new == AsColumn(PySlice(stim_data.rows[i + 1], b[1], b[2]))
                IN  IF ~HStackOk(acc, new) THEN Failed("ValueError")
                    ELSE AddColumns(stim_data, mm, dd, length_stim,
                                    HStack(acc, new), k + 1)

prepare_stimuli(sig, mm, dd) ==
  LET extracted == FirstRows(sig, mm)
      buffer    == Zeros(mm, dd)
  IN  IF dd > 0 /\ ~HStackOk(buffer, extracted) THEN Failed("ValueError")
      ELSE LET stim_data   == IF dd > 0 THEN HStack(buffer, extracted) ELSE extracted
               length_stim == stim_data.shape[2]
           IN  IF stim_data.shape[1] = 0 THEN Failed("IndexError")
               ELSE AddColumns(stim_data, mm, dd, length_stim,
                               AsColumn(PySlice(stim_data.rows[1], dd, length_stim)), 0)

-----------------------------------------------------------------------------
(* Idle values of the parts a specification does not use *)
NoMatrix == Failed("none")
IdleMatrix ==
  /\ stim_signal = Arr(0, 0, << >>) /\ m = 1 /\ d = 0 /\ stim_matrix = NoMatrix
IdleEpochs ==
  /\ val_epochs = << >> /\ interval = <<0, 0>>
  /\ resolved = [status |-> "none", names |-> << >>, index |-> <<0, 0>>,
                 consulted |-> FALSE]

Missing == [exists |-> FALSE, text |-> << >>]
IdleLedger ==
  /\ file = Missing /\ before = Missing /\ outcome = "none" /\ appended = << >>
IdleWriters ==
  /\ pc = << >> /\ content = << >> /\ n_trial = << >> /\ results = << >>
  /\ lines = << >> /\ overlapped = FALSE

Samples == 0..1

(* every signal slice of at most MaxChan channels and MaxT samples *)
Signals ==
  UNION { UNION { { Arr(c, t, rows) : rows \in [1..c -> [1..t -> Samples]] }
                  : t \in 0..MaxT } : c \in 0..MaxChan }

InitMatrix ==
  /\ stim_signal \in Signals
  /\ m \in 1..MaxM
  /\ d \in 0..MaxD
  /\ stim_matrix = NoMatrix
  /\ IdleEpochs
  /\ IdleLedger
  /\ IdleWriters

PrepareStimuli ==
  /\ stim_matrix.status = "none"
  /\ stim_matrix' = prepare_stimuli(stim_signal, m, d)
  /\ UNCHANGED <<stim_signal, m, d, epochVars, ledgerVars, writerVars>>

NextMatrix == PrepareStimuli

SpecMatrix == InitMatrix /\ [][NextMatrix]_vars

-----------------------------------------------------------------------------
(* C1: with at least m channels, the result has T rows and m*(d+1)        *)
(* columns, and column i*(d+1)+j holds at row t channel i at sample t-j,  *)
(* and 0 when t-j < 0.                                                    *)
LaggedDesignMatrix ==
  (stim_matrix.status # "none" /\ stim_signal.shape[1] >= m) =>
     /\ stim_matrix.status = "ok"
     /\ stim_matrix.matrix.shape = <<stim_signal.shape[2], m * (d + 1)>>
     /\ Len(stim_matrix.matrix.rows) = stim_signal.shape[2]
     /\ \A t \in 0..(stim_signal.shape[2] - 1) :
          /\ Len(stim_matrix.matrix.rows[t + 1]) = m * (d + 1)
          /\ \A i \in 0..(m - 1) : \A j \in 0..d :
               stim_matrix.matrix.rows[t + 1][i * (d + 1) + j + 1] =
                 IF t - j < 0 THEN 0 ELSE stim_signal.rows[i + 1][t - j + 1]

LaggedDesignMatrixReached ==
  /\ stim_matrix.status = "ok"
  /\ m = 2 /\ d = 2 /\ stim_signal.shape = <<3, 2>>
  /\ stim_signal.rows[2] = <<1, 0>>
  /\ stim_matrix.matrix.rows[2][5] = 1
  /\ stim_matrix.matrix.rows[1][5] = 0

(* C8: with fewer than m channels the call fails for every d and returns  *)
(* no matrix.                                                             *)
MissingChannelsRejected ==
  (stim_matrix.status # "none" /\ stim_signal.shape[1] < m) =>
     /\ stim_matrix.status \in {"IndexError", "ValueError"}
     /\ stim_matrix.matrix = Arr(0, 0, << >>)

MissingChannelsRejectedReached ==
  /\ stim_matrix.status = "IndexError"
  /\ d = 0 /\ m = 3 /\ stim_signal.shape = <<2, 2>>

-----------------------------------------------------------------------------
(* time_to_stimuli *)

(* the epoch step 1.5 s, in half seconds *)
EpochStep == 3

StartOutOfRangeByEnd(iv) == iv[2] < 0
StartOutOfRange(iv) == iv[1] < 0

EndsOnBoundaryNever(index, iv) == FALSE
EndsOnBoundary(index, iv) == index[2] # 0 /\ iv[2] % EpochStep = 0

Resolution(status, names, index, consulted) ==
  [status |-> status, names |-> names, index |-> index, consulted |-> consulted]

time_to_stimuli(epochs, iv) ==
  IF StartOutOfRange(iv)
    THEN Resolution("ValueError: Start Index out of range", << >>, <<0, 0>>, FALSE)
  ELSE LET index == <<iv[1] \div EpochStep, iv[2] \div EpochStep>>
       IN  IF index[2] = Len(epochs)
             THEN Resolution("ok", PySlice(epochs, index[1], Len(epochs)), index, TRUE)
           ELSE IF index[2] > Len(epochs) - 1
             THEN Resolution("ValueError: End Index out of range", << >>, <<0, 0>>, TRUE)
           ELSE IF EndsOnBoundary(index, iv)
             THEN Resolution("ok", PySlice(epochs, index[1], index[2]), index, TRUE)
           ELSE Resolution("ok", PySlice(epochs, index[1], index[2] + 1), index, TRUE)

Times == (0 - MaxBefore)..MaxTime

(* the matching epochs of a signal, named by their position 0, 1, ... *)
EpochLists == { [k \in 1..n |-> k - 1] : n \in 0..MaxEpochs }

InitEpochs ==
  /\ val_epochs \in EpochLists
  /\ interval \in Times \X Times
  /\ resolved = Resolution("none", << >>, <<0, 0>>, FALSE)
  /\ IdleMatrix
  /\ IdleLedger
  /\ IdleWriters

TimeToStimuli ==
  /\ resolved.status = "none"
  /\ resolved' = time_to_stimuli(val_epochs, interval)
  /\ UNCHANGED <<val_epochs, interval, matrixVars, ledgerVars, writerVars>>

NextEpochs == TimeToStimuli

SpecEpochs == InitEpochs /\ [][NextEpochs]_vars

Errors == {"ValueError: Start Index out of range", "ValueError: End Index out of range"}

(* the epochs whose bin [3k, 3(k+1)) overlaps [start, end) *)
Overlapping(count, iv) ==
  { k \in 0..(count - 1) : EpochStep * k < iv[2] /\ EpochStep * (k + 1) > iv[1] }

IsFloor(q, x) == EpochStep * q <= x /\ x < EpochStep * (q + 1)

(* C4: for 0 <= start < end <= 1.5*count the names returned are, in       *)
(* order, exactly the epochs whose bin overlaps [start, end), and the     *)
(* index pair is (floor(start/1.5), floor(end/1.5)).                      *)
EpochsOverlappingInterval ==
  (/\ resolved.status # "none"
   /\ 0 <= interval[1] /\ interval[1] < interval[2]
   /\ interval[2] <= EpochStep * Len(val_epochs)) =>
     /\ resolved.status = "ok"
     /\ Len(resolved.names) = Cardinality(Overlapping(Len(val_epochs), interval))
     /\ \A p \in 1..Len(resolved.names) :
          /\ resolved.names[p] \in Overlapping(Len(val_epochs), interval)
          /\ p > 1 => resolved.names[p] > resolved.names[p - 1]
     /\ IsFloor(resolved.index[1], interval[1])
     /\ IsFloor(resolved.index[2], interval[2])

(* interval (0.0, 3.0) over three epochs: epochs 0 and 1, index (0, 2) *)
EpochsOverlappingIntervalReached ==
  /\ resolved.status = "ok"
  /\ interval = <<0, 6>> /\ Len(val_epochs) = 3
  /\ resolved.names = <<0, 1>> /\ resolved.index = <<0, 2>>

(* interval (0.0, 2.0): the partially covered epoch 1 is included *)
PartialEpochIncludedReached ==
  /\ resolved.status = "ok"
  /\ interval = <<0, 4>> /\ Len(val_epochs) = 3
  /\ resolved.names = <<0, 1>> /\ resolved.index = <<0, 1>>

(* C5: an interval whose end lies beyond 1.5*count fails and returns no   *)
(* epoch names.                                                           *)
EndBeyondCoverageFails ==
  (resolved.status # "none" /\ interval[2] > EpochStep * Len(val_epochs)) =>
     resolved.status \in Errors /\ resolved.names = << >>

(* C9: a negative start fails with the start error, whatever the end and  *)
(* the epoch list, before the epochs are consulted.                       *)
NegativeStartFails ==
  (resolved.status # "none" /\ interval[1] < 0) =>
     /\ resolved.status = "ValueError: Start Index out of range"
     /\ resolved.names = << >>
     /\ ~resolved.consulted

NegativeStartFailsReached ==
  /\ resolved.status = "ValueError: Start Index out of range"
  /\ interval = <<0 - 2, 10>> /\ Len(val_epochs) = 4

-----------------------------------------------------------------------------
(* The ledger file: open_file, result_text, save_results *)

Digits == <<"0", "1", "2", "3", "4", "5", "6", "7", "8", "9">>

IsDigit(ch) == \E k \in 1..10 : Digits[k] = ch

(* int(ch) of a one-character string that is a digit *)
DigitValue(ch) == (CHOOSE k \in 1..10 : Digits[k] = ch) - 1

RECURSIVE Str(_)
(* str(n) of a natural number, as its decimal characters *)
Str(n) == IF n < 10 THEN <<Digits[n + 1]>>
          ELSE Str(n \div 10) \o <<Digits[(n % 10) + 1]>>

RECURSIVE NextNewline(_, _)
(* the position of the first "\n" at or after position from, 0 when none *)
NextNewline(text, from) ==
  IF from > Len(text) THEN 0
  ELSE IF text[from] = "\n" THEN from
  ELSE NextNewline(text, from + 1)

(* the position of the first "\n" of a text, 0 when it has none *)
FirstNewline(text) == NextNewline(text, 1)

(* content.split("\n")[0] *)
SplitFirst(text) ==
  IF FirstNewline(text) = 0 THEN text ELSE SubSeq(text, 1, FirstNewline(text) - 1)

(* the positions of the "\n" tokens of a text, in order *)
LineEnds(text) ==
  LET IsNewline(p) == text[p] = "\n"
  IN  SelectSeq([p \in 1..Len(text) |-> p], IsNewline)

(* file.readlines(): the lines of the text, each with its "\n"; what      *)
(* follows the last "\n" is a last line without one                       *)
ReadLines(text) ==
  LET ends  == LineEnds(text)
      whole == [i \in 1..Len(ends) |->
                  SubSeq(text, IF i = 1 THEN 1 ELSE ends[i - 1] + 1, ends[i])]
      last  == IF Len(ends) = 0 THEN 0 ELSE ends[Len(ends)]
  IN  IF last < Len(text) THEN Append(whole, SubSeq(text, last + 1, Len(text)))
      ELSE whole

RECURSIVE Joined(_, _, _)
(* the lines lo..hi of ls, one after another *)
Joined(ls, lo, hi) ==
  IF lo > hi THEN << >>
  ELSE IF lo = hi THEN ls[lo]
  ELSE LET mid == (lo + hi) \div 2
       IN  Joined(ls, lo, mid) \o Joined(ls, mid + 1, hi)

(* file.seek(0); file.writelines(lines); file.truncate() *)
WriteLines(ls) == Joined(ls, 1, Len(ls))

RECURSIVE Join(_, _)
(* sep.join(xs) *)
Join(sep, xs) ==
  IF xs = << >> THEN << >>
  ELSE IF Len(xs) = 1 THEN <<xs[1]>>
  ELSE <<xs[1], sep>> \o Join(sep, Tail(xs))

(* the records handed to save_results; the first is the one of __main__ *)
RecordingData ==
  << [coefficients |-> <<"0", "1", "2">>, intercepts |-> <<"0">>, d |-> 1, m |-> 2,
      r2 |-> "1.3", mae |-> "4.432", mse |-> "5.432", function |-> "test_function"],
     [coefficients |-> <<"0.5">>, intercepts |-> <<"1.0", "2.0">>, d |-> 0, m |-> 1,
      r2 |-> "0.9", mae |-> "0.1", mse |-> "0.2", function |-> "ridge"] >>

Records == DOMAIN RecordingData

result_text(r, n) ==
  <<"Trial: n=">> \o Str(n) \o <<", m=">> \o Str(r.m) \o <<", d=">> \o Str(r.d)
  \o <<"\n", "Results:", "\n">>
  \o <<"\tCoefficients: ", "[">> \o Join(", ", r.coefficients) \o <<"]", "\n">>
  \o <<"\tIntercepts: ", "[">> \o Join(", ", r.intercepts) \o <<"]", "\n">>
  \o <<"\tR2: ", r.r2, "\n", "\tMSE: ", r.mse, "\n", "\tMAE: ", r.mae, "\n">>
  \o <<"\tFunction: ", r.function, "\n">>

Existing(text) == [exists |-> TRUE, text |-> text]

(* open_file: a missing file is created empty; the content is returned *)
open_file(f) == [file |-> Existing(f.text), content |-> f.text]

(* n_trial = int(prev_text[0][-1]) *)
ParseCounter(text) ==
  LET first == SplitFirst(text)
  IN  IF first = << >> THEN [status |-> "IndexError", n |-> 0]
      ELSE IF ~IsDigit(first[Len(first)]) THEN [status |-> "ValueError", n |-> 0]
      ELSE [status |-> "ok", n |-> DigitValue(first[Len(first)])]

(* lines[0] = lines[0][0:-2] + str(n_trial + 1) + "\n" *)
CounterLineKeepingDigit(line, n) == PySlice(line, 0, 0 - 1) \o Str(n + 1) \o <<"\n">>
CounterLine(line, n) == PySlice(line, 0, 0 - 2) \o Str(n + 1) \o <<"\n">>

RewriteCounter(ls, n) == <<CounterLine(ls[1], n)>> \o Tail(ls)

(* the header line written before the first trial *)
FirstHeader == <<"N", ":", " ", "1", "\n">>

(* the "a+" block: n_trial += 1, the header when n_trial == 1, the block *)
AppendTrial(text, r, n) ==
  text \o (IF n + 1 = 1 THEN FirstHeader ELSE << >>) \o result_text(r, n + 1)

save_results(f, r) ==
  LET opened == open_file(f)
  IN  IF Len(opened.content) = 0
        THEN [status |-> "ok", file |-> Existing(AppendTrial(opened.file.text, r, 0))]
      ELSE LET parsed == ParseCounter(opened.content)
           IN  IF parsed.status # "ok"
                 THEN [status |-> parsed.status, file |-> opened.file]
               ELSE LET rewritten ==
                          WriteLines(RewriteCounter(ReadLines(opened.file.text), parsed.n))
                    IN  [status |-> "ok",
                         file |-> Existing(AppendTrial(rewritten, r, parsed.n))]

-----------------------------------------------------------------------------
(* Sequential appends to a fresh path *)

OtherRecords(calls) == Cardinality({ p \in 1..Len(calls) : calls[p] # 1 })

(* one whole save_results call with record r *)
Save(r) ==
  LET res == save_results(file, RecordingData[r])
  IN  /\ before' = file
      /\ file' = res.file
      /\ outcome' = res.status
      /\ appended' = IF res.status = "ok" THEN Append(appended, r) ELSE appended
      /\ UNCHANGED <<matrixVars, epochVars, writerVars>>

Init ==
  /\ file \in {Missing, Existing(<< >>)}
  /\ before = Missing /\ outcome = "none" /\ appended = << >>
  /\ IdleMatrix
  /\ IdleEpochs
  /\ IdleWriters

SaveResults ==
  \E r \in Records :
    /\ Len(appended) < MaxCalls
    /\ r = 1 \/ OtherRecords(appended) < MaxOther
    /\ Save(r)

Next == SaveResults

Spec == Init /\ [][Next]_vars

-----------------------------------------------------------------------------
(* Reading a ledger text back *)

CounterPrefix == <<"N", ":", " ">>

(* the first line a ledger of k trials is to have *)
CounterLineOf(k) == CounterPrefix \o Str(k) \o <<"\n">>

FirstLine(text) ==
  IF FirstNewline(text) = 0 THEN text ELSE SubSeq(text, 1, FirstNewline(text))

AfterFirstLine(text) ==
  IF FirstNewline(text) = 0 THEN << >>
  ELSE SubSeq(text, FirstNewline(text) + 1, Len(text))

(* the positions at which a trial block starts *)
BlockStarts(text) == { p \in 1..Len(text) : text[p] = "Trial: n=" }

BlockCount(text) == Cardinality(BlockStarts(text))

(* the position of the k-th block *)
BlockAt(text, k) ==
  LET S == BlockStarts(text)
  IN  CHOOSE p \in S : Cardinality({ q \in S : q <= p }) = k

(* TRUE when the text from position p on starts with the tokens of s *)
StartsWithAt(text, p, s) ==
  /\ p + Len(s) - 1 <= Len(text)
  /\ SubSeq(text, p, p + Len(s) - 1) = s

(* the trial numbers a header is read against *)
Trials == 0..(MaxCalls + MaxPrior + 10)

(* the k-th block is the block of record r, with some trial number *)
IsBlockOf(text, k, r) ==
  LET p == BlockAt(text, k)
  IN  \E n \in Trials : StartsWithAt(text, p, result_text(RecordingData[r], n))

(* the trial number in the header of the k-th block, -1 when none reads *)
TrialNumber(text, k) ==
  LET p      == BlockAt(text, k)
      Reads  == { n \in Trials :
                   StartsWithAt(text, p, <<"Trial: n=">> \o Str(n) \o <<", m=">>) }
  IN  IF Reads = {} THEN 0 - 1 ELSE CHOOSE n \in Reads : TRUE

(* C2: after k sequential calls on a fresh path the first line reads      *)
(* "N: k" and the file holds exactly k blocks, in the order appended.     *)
CounterCountsTrials ==
  Len(appended) >= 1 =>
    /\ FirstLine(file.text) = CounterLineOf(Len(appended))
    /\ BlockCount(file.text) = Len(appended)
    /\ \A k \in 1..Len(appended) : IsBlockOf(file.text, k, appended[k])

(* C3: the block a call appends carries the trial number of the last      *)
(* block before it plus one, so the k-th block has n = k.                 *)
TrialNumbersSequential ==
  (outcome = "ok" /\ Len(appended) >= 1) =>
    /\ BlockCount(file.text) = BlockCount(before.text) + 1
    /\ BlockCount(before.text) >= 1 =>
         TrialNumber(file.text, BlockCount(file.text)) =
           TrialNumber(before.text, BlockCount(before.text)) + 1
    /\ \A k \in 1..BlockCount(file.text) : TrialNumber(file.text, k) = k

(* C6: a call on a non-empty ledger changes the first line only, to the   *)
(* counter plus one, keeps every later line, and adds its block after     *)
(* all existing content.                                                  *)
AppendOnlyBodies ==
  (outcome = "ok" /\ Len(before.text) > 0) =>
    \E k \in Trials :
      /\ FirstLine(before.text) = CounterLineOf(k)
      /\ FirstLine(file.text) = CounterLineOf(k + 1)
      /\ \E n \in Trials :
           AfterFirstLine(file.text) =
             AfterFirstLine(before.text) \o result_text(RecordingData[appended[Len(appended)]], n)

-----------------------------------------------------------------------------
(* A call on a ledger file that exists already, written by anyone *)

TailChars == {"x", "5", " "}

Tails == UNION { [1..n -> TailChars] : n \in 0..MaxTail }

(* first lines "N: <tail>", with and without later content, and a text    *)
(* whose first line is empty                                              *)
ForeignTexts ==
  { CounterPrefix \o tail \o <<"\n">> : tail \in Tails }
  \cup { CounterPrefix \o tail \o <<"\n">> \o result_text(RecordingData[1], 5) : tail \in Tails }
  \cup { CounterPrefix \o tail : tail \in Tails }
  \cup { <<"\n">> \o result_text(RecordingData[1], 5) }

InitForeign ==
  /\ file \in { Existing(text) : text \in ForeignTexts }
  /\ before = Missing /\ outcome = "none" /\ appended = << >>
  /\ IdleMatrix
  /\ IdleEpochs
  /\ IdleWriters

SaveResultsExisting ==
  \E r \in Records :
    /\ Len(appended) < MaxForeignCalls
    /\ Save(r)

NextForeign == SaveResultsExisting

SpecForeign == InitForeign /\ [][NextForeign]_vars

(* the trailing token of the first line: what follows its last blank *)
TrailingToken(text) ==
  LET first  == SplitFirst(text)
      Blanks == { p \in 1..Len(first) : first[p] = " " }
      last   == IF Blanks = {} THEN 0 ELSE CHOOSE p \in Blanks : \A q \in Blanks : q <= p
  IN  SubSeq(first, last + 1, Len(first))

IsNumeral(token) == token # << >> /\ \A p \in 1..Len(token) : IsDigit(token[p])

(* C7: on a non-empty ledger whose first line does not end in a numeral   *)
(* the call fails and leaves the file as it was.                          *)
MalformedCounterRejected ==
  (outcome # "none" /\ Len(before.text) > 0 /\ ~IsNumeral(TrailingToken(before.text))) =>
     /\ outcome \in {"ValueError", "IndexError"}
     /\ file = before

-----------------------------------------------------------------------------
(* Two invocations of save_results on one ledger, step by step *)

Writers == 1..2

RECURSIVE PriorLedger(_)
(* the ledger after k sequential calls on a fresh path *)
PriorLedger(k) ==
  IF k = 0 THEN Missing ELSE save_results(PriorLedger(k - 1), RecordingData[1]).file

InitWriters ==
  /\ \E k \in 0..MaxPrior :
       /\ file = PriorLedger(k)
       /\ appended = [p \in 1..k |-> 1]
  /\ before = Missing /\ outcome = "none"
  /\ pc = [w \in Writers |-> "start"]
  /\ content = [w \in Writers |-> << >>]
  /\ n_trial = [w \in Writers |-> 0]
  /\ results \in [Writers -> Records]
  /\ lines = [w \in Writers |-> << >>]
  /\ overlapped = FALSE
  /\ IdleMatrix
  /\ IdleEpochs

Running(w) == pc[w] \in {"readlines", "writelines", "append"}

(* content = open_file(file_path), and the parse of the counter *)
OpenFile(w) ==
  /\ pc[w] = "start"
  /\ LET opened == open_file(file)
         parsed == ParseCounter(opened.content)
     IN  /\ file' = opened.file
         /\ content' = [content EXCEPT ![w] = opened.content]
         /\ n_trial' = [n_trial EXCEPT ![w] =
                          IF Len(opened.content) = 0 THEN 0 ELSE parsed.n]
         /\ pc' = [pc EXCEPT ![w] =
                     IF Len(opened.content) = 0 THEN "append"
                     ELSE IF parsed.status # "ok" THEN "failed"
                     ELSE "readlines"]
  /\ overlapped' = (overlapped \/ \E v \in Writers \ {w} : Running(v))
  /\ UNCHANGED <<before, outcome, appended, results, lines, matrixVars, epochVars>>

(* lines = file.readlines() *)
ReadLinesStep(w) ==
  /\ pc[w] = "readlines"
  /\ lines' = [lines EXCEPT ![w] = ReadLines(file.text)]
  /\ pc' = [pc EXCEPT ![w] = "writelines"]
  /\ UNCHANGED <<ledgerVars, content, n_trial, results, overlapped, matrixVars, epochVars>>

(* the new counter line, file.seek(0), file.writelines(lines), file.truncate() *)
WriteLinesStep(w) ==
  /\ pc[w] = "writelines"
  /\ file' = Existing(WriteLines(RewriteCounter(lines[w], n_trial[w])))
  /\ pc' = [pc EXCEPT ![w] = "append"]
  /\ UNCHANGED <<before, outcome, appended, content, n_trial, results, lines, overlapped,
                 matrixVars, epochVars>>

(* the "a+" block *)
AppendStep(w) ==
  /\ pc[w] = "append"
  /\ before' = file
  /\ file' = Existing(AppendTrial(file.text, RecordingData[results[w]], n_trial[w]))
  /\ outcome' = "ok"
  /\ appended' = Append(appended, results[w])
  /\ pc' = [pc EXCEPT ![w] = "done"]
  /\ UNCHANGED <<content, n_trial, results, lines, overlapped, matrixVars, epochVars>>

NextWriters ==
  \E w \in Writers :
    \/ OpenFile(w)
    \/ ReadLinesStep(w)
    \/ WriteLinesStep(w)
    \/ AppendStep(w)

SpecWriters == InitWriters /\ [][NextWriters]_vars

Quiet == \A w \in Writers : pc[w] \in {"start", "done"}

(* the counter line counts the blocks and no two blocks share a number *)
Consistent(text) ==
  \/ text = << >>
  \/ /\ FirstLine(text) = CounterLineOf(BlockCount(text))
     /\ \A k \in 1..BlockCount(text) : \A j \in 1..BlockCount(text) :
          k # j => TrialNumber(text, k) # TrialNumber(text, j)

(* C10: while the counter is a single digit, a ledger whose counter       *)
(* differs from its block count, or in which two blocks carry the same    *)
(* number, arises only when two invocations have interleaved their        *)
(* steps; invocations run one after another leave it consistent.          *)
LostUpdateOnlyWhenInterleaved ==
  (Quiet /\ ~overlapped /\ Len(appended) <= 9) =>
     /\ Consistent(file.text)
     /\ BlockCount(file.text) = Len(appended)

(* both invocations read "N: 1": the counter reads 2, the file holds      *)
(* three blocks and the last two are both trial 2                         *)
LostUpdateReached ==
  /\ \A w \in Writers : pc[w] = "done"
  /\ overlapped
  /\ FirstLine(file.text) = CounterLineOf(2)
  /\ BlockCount(file.text) = 3
  /\ TrialNumber(file.text, 2) = 2
  /\ TrialNumber(file.text, 3) = 2

(* the invocations ran one after another and the ledger is consistent *)
SerialRunReached ==
  /\ \A w \in Writers : pc[w] = "done"
  /\ ~overlapped
  /\ FirstLine(file.text) = CounterLineOf(3)
  /\ BlockCount(file.text) = 3

=============================================================================
